---- MODULE Spec2Model ----
(***************************************************************************)
(* Oracle core: the command dispatch of handle_oracle_command, the run     *)
(* loop and main_loop_iteration of src/core/src/main.rs, together with the *)
(* collaborators it calls (process, build_action, execute_action, the node *)
(* and the ledger), which live in modules outside main.rs and are modelled *)
(* from their documented contract.                                         *)
(***************************************************************************)
EXTENDS Integers, FiniteSets, Sequences, TLC

\* ------------------------------------------------------------------ bounds

\* Highest block height the ledger reaches.
MaxHeight == 2
\* Largest configured epoch length (in blocks).
MaxEpochLength == 2
\* Pool parameter: minimum number of datapoints within the deviation range.
MinDataPoints == 3
\* Pool parameter: maximum deviation from the aggregate, in percent.
MaxDeviationPercent == 5

Heights == 0..MaxHeight
\* The public keys of the oracles whose datapoint boxes the refresh collects.
Oracles == {"pk1", "pk2", "pk3"}
\* The rates the oracles may post.
DatapointValues == {100, 110}

\* ------------------------------------------------- unsigned 32-bit heights

\* Heights and epoch lengths are u32 (main.rs casts both with `as u32`
\* before calling process).  A u32 is held as two 16-bit limbs <<hi, lo>>
\* where a value may exceed the checker's integer range.
Limb == 2^16

ToU32(n) == <<n \div Limb, n % Limb>>

\* a - b modulo 2^32, for a, b in 0 .. 2^31-1.
WrappingSub(a, b) ==
  IF a >= b
    THEN ToU32(a - b)
    ELSE LET d == (b - a) - 1
         IN  <<(Limb - 1) - (d \div Limb), (Limb - 1) - (d % Limb)>>

\* x >= n, x a u32 in limbs, n in 0 .. 2^31-1.
U32Ge(x, n) ==
  \/ x[1] > n \div Limb
  \/ x[1] = n \div Limb /\ x[2] >= n % Limb

\* ------------------------------------------------------------- pool state

NeedsBootstrap ==
  [tag |-> "NeedsBootstrap", epoch_start_height |-> 0, local_posted |-> FALSE]

LiveEpoch(start, posted) ==
  [tag |-> "LiveEpoch", epoch_start_height |-> start, local_posted |-> posted]

PoolStates ==
  {NeedsBootstrap} \cup {LiveEpoch(s, p) : s \in Heights, p \in BOOLEAN}

NoCommand == "None"
PoolCommands == {"PublishDatapoint", "Refresh"}
GovernanceCommands == {"VoteUpdatePool", "UpdatePool", "PrepareUpdate"}

\* A plausible slip: an idle operator of an open epoch is sent to vote.
process_votes(pool_state, epoch_length_, height_) ==
  IF pool_state.tag = "NeedsBootstrap" THEN NoCommand
  ELSE LET elapsed == WrappingSub(height_, pool_state.epoch_start_height)
       IN IF U32Ge(elapsed, epoch_length_) THEN "Refresh"
          ELSE IF ~pool_state.local_posted THEN "PublishDatapoint"
          ELSE "VoteUpdatePool"

\* A plausible slip: the bootstrap case falls through to publishing.
process_no_idle(pool_state, epoch_length_, height_) ==
  IF U32Ge(WrappingSub(height_, pool_state.epoch_start_height), epoch_length_)
       /\ pool_state.tag = "LiveEpoch"
    THEN "Refresh"
    ELSE IF ~pool_state.local_posted THEN "PublishDatapoint" ELSE NoCommand

\* state::process: the epoch decision.  elapsed = height - epoch_start_height
\* is a u32 subtraction; the function is total, so the subtraction wraps.
process(pool_state, epoch_length_, height_) ==
  IF pool_state.tag = "NeedsBootstrap"
    THEN NoCommand
    ELSE LET elapsed == WrappingSub(height_, pool_state.epoch_start_height)
         IN  IF U32Ge(elapsed, epoch_length_)
               THEN "Refresh"
               ELSE IF ~pool_state.local_posted THEN "PublishDatapoint"
                    ELSE NoCommand

\* ------------------------------------------------------------ build_action

NoBox == [present |-> FALSE, value |-> 0, height |-> 0]

DatapointBox(v, h) == [present |-> TRUE, value |-> v, height |-> h]

\* The datapoint boxes a ledger at height `top` can hold.
DatapointBoxes(top) ==
  {NoBox} \cup {DatapointBox(v, h) : v \in DatapointValues, h \in 0..top}

\* What the box repository shows of the oracles' datapoint boxes: one box,
\* or none, per oracle public key.
DatapointSnapshots(top) == [Oracles -> DatapointBoxes(top)]

RECURSIVE SumValues(_, _)
SumValues(boxes, pks) ==
  IF pks = {} THEN 0
  ELSE LET pk == CHOOSE x \in pks : TRUE
       IN  boxes[pk].value + SumValues(boxes, pks \ {pk})

\* Steps 1 and 2 of the refresh: committed within the current epoch window
\* and inside the freshness window.
IsFresh(box, epoch_start, epoch_length_, height_) ==
  /\ box.present
  /\ box.height >= epoch_start
  /\ box.height + epoch_length_ >= height_

FreshKeys(boxes, epoch_start, epoch_length_, height_) ==
  {pk \in Oracles : IsFresh(boxes[pk], epoch_start, epoch_length_, height_)}

\* Step 3: the reference value, the average of the fresh datapoints.
ReferenceValue(boxes, pks) ==
  IF pks = {} THEN 0 ELSE SumValues(boxes, pks) \div Cardinality(pks)

Abs(x) == IF x < 0 THEN -x ELSE x

WithinDeviation(v, reference) ==
  Abs(v - reference) * 100 <= MaxDeviationPercent * reference

QualifyingKeys(boxes, epoch_start, epoch_length_, height_) ==
  LET fresh == FreshKeys(boxes, epoch_start, epoch_length_, height_)
      reference == ReferenceValue(boxes, fresh)
  IN  {pk \in fresh : WithinDeviation(boxes[pk].value, reference)}

NoKeys == {}

BuildResult(tag, kind, keys, pool_start, new_start) ==
  [tag |-> tag, kind |-> kind, expected |-> MinDataPoints,
   found_public_keys |-> keys, found_num |-> Cardinality(keys),
   pool_box |-> pool_start, new_epoch_start |-> new_start]

NoResult == BuildResult("NotBuilt", NoCommand, NoKeys, 0, 0)

\* A plausible slip: the new pool box takes the height the action is built
\* for as it is, whatever the start of the pool box it replaces.
new_epoch_start_height_unchecked(pool_start, height_) == height_

\* Step 5: the new pool box carries an incremented epoch start height.  The
\* new epoch starts at the height the action is built for; a height at or
\* below the spent pool box's start still yields an increment.
new_epoch_start_height(pool_start, height_) ==
  IF height_ > pool_start THEN height_ ELSE pool_start + 1

\* A plausible slip: the refresh is built from whatever qualified, without
\* the minimum-count test.
build_refresh_silent(boxes, pool_start, epoch_length_, height_) ==
  BuildResult("Ok", "Refresh",
              QualifyingKeys(boxes, pool_start, epoch_length_, height_),
              pool_start, new_epoch_start_height(pool_start, height_))

\* Steps 4 and 5 of the refresh.
build_refresh(boxes, pool_start, epoch_length_, height_) ==
  LET keys == QualifyingKeys(boxes, pool_start, epoch_length_, height_)
  IN  IF Cardinality(keys) < MinDataPoints
        THEN BuildResult("FailedToReachConsensus", "Refresh", keys, pool_start, 0)
        ELSE BuildResult("Ok", "Refresh", keys, pool_start,
                         new_epoch_start_height(pool_start, height_))

build_publish_datapoint(source_ok, pool_start) ==
  IF source_ok
    THEN BuildResult("Ok", "PublishDatapoint", NoKeys, pool_start, 0)
    ELSE BuildResult("DataPointSource", "PublishDatapoint", NoKeys, pool_start, 0)

\* pool_commands::build_action.  context_ok is false when the box
\* repository or the wallet fails the builder with any other error.
build_action(cmd_, boxes, pool_start, epoch_length_, height_, source_ok, context_ok) ==
  IF ~context_ok
    THEN BuildResult("Other", cmd_, NoKeys, pool_start, 0)
    ELSE IF cmd_ = "Refresh"
      THEN build_refresh(boxes, pool_start, epoch_length_, height_)
      ELSE build_publish_datapoint(source_ok, pool_start)

\* --------------------------------------------- log_and_continue_if_non_fatal

\* A plausible slip: a consensus failure is handed on as if it were an
\* action to execute.
log_and_continue_failure_as_action(res) ==
  IF res.tag \in {"Ok", "FailedToReachConsensus"} THEN "Some"
  ELSE IF res.tag = "DataPointSource" THEN "None"
  ELSE "Err"

\* Result<Option<PoolAction>, PoolCommandError> as "Some", "None" or "Err".
\* A plausible slip: the datapoint-source arm is missing.
log_and_continue_no_source_arm(res) ==
  IF res.tag = "Ok" THEN "Some"
  ELSE IF res.tag = "FailedToReachConsensus" THEN "None"
  ELSE "Err"

log_and_continue_if_non_fatal(res) ==
  IF res.tag = "Ok" THEN "Some"
  ELSE IF res.tag = "FailedToReachConsensus" THEN "None"
  ELSE IF res.tag = "DataPointSource" THEN "None"
  ELSE "Err"

\* ----------------------------------------------------------------- commands

\* The subcommands handle_oracle_command receives.  A string argument is
\* "none" (an absent Option), "bad" (does not parse) or "ok"; an amount is
\* "none", "zero" or "pos".
Cmd(name, ro, hash, token, amount, file) ==
  [name |-> name, read_only |-> ro, new_pool_box_hash |-> hash,
   reward_token_id |-> token, reward_token_amount |-> amount,
   update_file |-> file]

Commands ==
  {Cmd("Run", ro, "none", "none", "none", "none") : ro \in BOOLEAN}
  \cup {Cmd(n, FALSE, "none", "none", "none", "none") :
          n \in {"ExtractRewardTokens", "PrintRewardTokens", "TransferOracleToken"}}
  \cup {Cmd("VoteUpdatePool", FALSE, h, t, a, "none") :
          h \in {"bad", "ok"}, t \in {"bad", "ok"}, a \in {"zero", "pos"}}
  \cup {c \in {Cmd("UpdatePool", FALSE, h, t, a, "none") :
                  h \in {"none", "bad", "ok"}, t \in {"none", "bad", "ok"},
                  a \in {"none", "zero", "pos"}} :
          \* positional arguments: a later one is given only after the earlier
          /\ c.reward_token_id # "none" => c.new_pool_box_hash # "none"
          /\ c.reward_token_amount # "none" => c.reward_token_id # "none"}
  \cup {Cmd("PrepareUpdate", FALSE, "none", "none", "none", f) : f \in {"bad", "ok"}}

\* cli_commands::vote_update_pool: "Invalid" on a malformed parameter,
\* before anything is built; otherwise the vote is built and submitted.
vote_update_pool(c, node_ok) ==
  IF c.new_pool_box_hash = "bad" \/ c.reward_token_id = "bad"
       \/ c.reward_token_amount = "zero"
    THEN "Invalid"
    ELSE IF node_ok THEN "Submitted" ELSE "Err"

\* cli_commands::update_pool(op, new_pool_box_hash, new_reward_tokens):
\* without a hash it only prints the configuration diff.
update_pool(hash, node_ok) ==
  IF hash = "none" THEN "Printed"
  ELSE IF hash = "bad" THEN "Invalid"
  ELSE IF node_ok THEN "Submitted" ELSE "Err"

\* cli_commands::prepare_update(update_file).
prepare_update(file, node_ok) ==
  IF file = "bad" THEN "Invalid"
  ELSE IF node_ok THEN "Submitted" ELSE "Err"

\* reward_token_id.zip(reward_token_amount).map(|(token_id, amount)| Token {
\* token_id: ..try_from(token_id).unwrap(), amount: amount.try_into().unwrap() }):
\* "none" when either Option is absent, "panic" when an unwrap fails.
new_reward_tokens(c) ==
  IF c.reward_token_id = "none" \/ c.reward_token_amount = "none" THEN "none"
  ELSE IF c.reward_token_id = "bad" THEN "panic"
  ELSE IF c.reward_token_amount = "zero" THEN "panic"
  ELSE "some"

\* ---------------------------------------------------------------- the state

VARIABLES
  \* the ledger and the node
  chain_height, pool_box, local_posted, wallet_locked,
  \* the configuration and the command line
  command, epoch_length,
  \* the process
  pc, exit_status, submitted,
  \* the locals of one main_loop_iteration
  height, change_address, pool_state, cmd, dp_snapshot, build_res,
  iter_res, exec_calls, error_logged,
  \* what a one-shot command's operation returned
  command_res

ledger == <<chain_height, pool_box, local_posted, wallet_locked>>
config == <<command, epoch_length>>
locals == <<height, change_address, pool_state, cmd, dp_snapshot, build_res,
            iter_res, exec_calls>>
vars == <<chain_height, pool_box, local_posted, wallet_locked, command,
          epoch_length, pc, exit_status, submitted, height, change_address,
          pool_state, cmd, dp_snapshot, build_res, iter_res, exec_calls,
          error_logged, command_res>>

NoPoolBox == [exists |-> FALSE, epoch_start_height |-> 0]
PoolBox(start) == [exists |-> TRUE, epoch_start_height |-> start]

NoSnapshot == [pk \in Oracles |-> NoBox]

FreshLocals ==
  /\ height = 0
  /\ change_address = "none"
  /\ pool_state = NeedsBootstrap
  /\ cmd = NoCommand
  /\ dp_snapshot = NoSnapshot
  /\ build_res = NoResult
  /\ iter_res = "none"
  /\ exec_calls = 0

\* The ledger at launch: any height, no pool box yet or one created at or
\* below that height.
InitLedger ==
  /\ chain_height \in Heights
  /\ pool_box \in {NoPoolBox} \cup {PoolBox(s) : s \in 0..chain_height}
  /\ local_posted \in (IF pool_box.exists THEN BOOLEAN ELSE {FALSE})
  /\ wallet_locked \in BOOLEAN

Init ==
  /\ InitLedger
  /\ command \in Commands
  /\ epoch_length \in 1..MaxEpochLength
  /\ pc = "launch"
  /\ exit_status = "none"
  /\ submitted = FALSE
  /\ error_logged = FALSE
  /\ command_res = "none"
  /\ FreshLocals

Exit(status) ==
  /\ pc' = "exited"
  /\ exit_status' = status

Running == pc # "exited"

\* The ledger and the node move between any two calls the running process
\* makes to them.  Classifying a build result is local to the process: there
\* is no call between build_action's return and the classification.
BetweenCalls == Running /\ pc # "iter_classify"

\* ------------------------------------------------- the ledger and the node

\* A block is mined.
NewBlock ==
  /\ BetweenCalls
  /\ chain_height < MaxHeight
  /\ chain_height' = chain_height + 1
  /\ UNCHANGED <<pool_box, local_posted, wallet_locked, config, command_res, pc,
                 exit_status, submitted, locals, error_logged>>

\* The pool is bootstrapped by its administrator.
PoolBootstrapped ==
  /\ BetweenCalls
  /\ ~pool_box.exists
  /\ pool_box' = PoolBox(chain_height)
  /\ UNCHANGED <<chain_height, local_posted, wallet_locked, config, command_res, pc,
                 exit_status, submitted, locals, error_logged>>

\* Another operator's refresh is accepted: it spends the pool box and
\* creates the next one, which opens a new epoch.
OtherOperatorRefresh ==
  /\ BetweenCalls
  /\ pool_box.exists
  /\ chain_height >= pool_box.epoch_start_height + epoch_length
  /\ pool_box' = PoolBox(chain_height)
  /\ local_posted' = FALSE
  /\ UNCHANGED <<chain_height, wallet_locked, config, command_res, pc, exit_status,
                 submitted, locals, error_logged>>

\* The node's wallet is locked or unlocked by its owner.
WalletToggled ==
  /\ BetweenCalls
  /\ wallet_locked' = ~wallet_locked
  /\ UNCHANGED <<chain_height, pool_box, local_posted, config, command_res, pc,
                 exit_status, submitted, locals, error_logged>>

Environment ==
  \/ NewBlock
  \/ PoolBootstrapped
  \/ OtherOperatorRefresh
  \/ WalletToggled

\* ---------------------------------------------------- handle_oracle_command

\* node_interface::assert_wallet_unlocked: the status the process exits
\* with, or "none" when the wallet is unlocked.
assert_wallet_unlocked(locked) == IF locked THEN "SOFTWARE" ELSE "none"

\* log_on_launch(); assert_wallet_unlocked(&new_node_interface());
Launch ==
  /\ pc = "launch"
  /\ IF assert_wallet_unlocked(wallet_locked) # "none"
       THEN Exit(assert_wallet_unlocked(wallet_locked))
       ELSE pc' = "register_scans" /\ UNCHANGED exit_status
  /\ UNCHANGED <<ledger, config, command_res, submitted, locals, error_logged>>

\* register_and_save_scans().unwrap();
RegisterAndSaveScans ==
  /\ pc = "register_scans"
  /\ \E ok \in BOOLEAN :
       IF ok THEN pc' = "oracle_pool_new" /\ UNCHANGED exit_status
             ELSE Exit("panic")
  /\ UNCHANGED <<ledger, config, command_res, submitted, locals, error_logged>>

\* let op = OraclePool::new().unwrap();
OraclePoolNew ==
  /\ pc = "oracle_pool_new"
  /\ \E ok \in BOOLEAN :
       IF ok THEN pc' = "dispatch" /\ UNCHANGED exit_status
             ELSE Exit("panic")
  /\ UNCHANGED <<ledger, config, command_res, submitted, locals, error_logged>>

\* A plausible slip: the loop is entered without the second check.
Run_unchecked ==
  /\ pc = "dispatch"
  /\ command.name = "Run"
  /\ pc' = "iter_height"
  /\ UNCHANGED <<ledger, config, command_res, exit_status, submitted, locals, error_logged>>

\* Command::Run: the second assert_wallet_unlocked, then the loop.  (The
\* REST server, when enabled, runs on its own and shares no state.)
Run ==
  /\ pc = "dispatch"
  /\ command.name = "Run"
  /\ IF assert_wallet_unlocked(wallet_locked) # "none"
       THEN Exit(assert_wallet_unlocked(wallet_locked))
       ELSE pc' = "iter_height" /\ UNCHANGED exit_status
  /\ UNCHANGED <<ledger, config, command_res, submitted, locals, error_logged>>

\* A plausible slip: the error of a one-shot command is logged but the
\* process::exit is missing, so main returns normally.
one_shot_exit_swallowed(outcome) ==
  IF outcome = "panic" THEN "panic" ELSE "ok"

\* How a one-shot command ends: `if let Err(e) = ... { error!(..);
\* std::process::exit(exitcode::SOFTWARE) }`, else main returns.
one_shot_exit(outcome) ==
  IF outcome \in {"Submitted", "Printed"} THEN "ok"
  ELSE IF outcome = "panic" THEN "panic"
  ELSE "SOFTWARE"

OneShotEnds(outcome) ==
  /\ Exit(one_shot_exit(outcome))
  /\ submitted' = (outcome = "Submitted")
  /\ error_logged' = (one_shot_exit(outcome) = "SOFTWARE")
  /\ command_res' = outcome
  /\ UNCHANGED <<ledger, config, locals>>

\* Command::ExtractRewardTokens and Command::TransferOracleToken.
TokenCommand ==
  /\ pc = "dispatch"
  /\ command.name \in {"ExtractRewardTokens", "TransferOracleToken"}
  /\ \E outcome \in {"Submitted", "Err"} : OneShotEnds(outcome)

\* Command::PrintRewardTokens.
PrintRewardTokens ==
  /\ pc = "dispatch"
  /\ command.name = "PrintRewardTokens"
  /\ \E outcome \in {"Printed", "Err"} : OneShotEnds(outcome)

\* Command::VoteUpdatePool.
VoteUpdatePool ==
  /\ pc = "dispatch"
  /\ command.name = "VoteUpdatePool"
  /\ \E node_ok \in BOOLEAN : OneShotEnds(vote_update_pool(command, node_ok))

\* Command::UpdatePool: the reward token is assembled first, then
\* update_pool is called with the hash and the token.
update_pool_command(c, node_ok) ==
  IF new_reward_tokens(c) = "panic" THEN "panic"
  ELSE update_pool(c.new_pool_box_hash, node_ok)

UpdatePool ==
  /\ pc = "dispatch"
  /\ command.name = "UpdatePool"
  /\ \E node_ok \in BOOLEAN : OneShotEnds(update_pool_command(command, node_ok))

\* Command::PrepareUpdate.
PrepareUpdate ==
  /\ pc = "dispatch"
  /\ command.name = "PrepareUpdate"
  /\ \E node_ok \in BOOLEAN : OneShotEnds(prepare_update(command.update_file, node_ok))

\* ------------------------------------------------------ main_loop_iteration

\* What an iteration returns to the loop: "Ok" or the error.
IsErr(res) == res \notin {"none", "Ok"}

\* The iteration returns `res` to the loop.
Returns(res) ==
  /\ iter_res' = res
  /\ pc' = "iter_return"

\* let height = current_block_height().context(..)? as u32;
CurrentBlockHeight ==
  /\ pc = "iter_height"
  /\ \E node_ok \in BOOLEAN :
       IF node_ok
         THEN /\ height' = chain_height
              /\ pc' = "iter_change_address"
              /\ UNCHANGED iter_res
         ELSE /\ Returns("Failed to get the current height")
              /\ UNCHANGED height
  /\ UNCHANGED <<ledger, config, command_res, exit_status, submitted, change_address,
                 pool_state, cmd, dp_snapshot, build_res, exec_calls,
                 error_logged>>

\* get_change_address_from_node: get_wallet_status()?, then
\* change_address.ok_or_else(|| anyhow!(".. (locked wallet?)"))?, then the
\* address is parsed.  A locked wallet reports no change address.
LockedWalletError == "failed to get wallet's change address (locked wallet?)"

get_change_address_from_node(status_ok, locked, parse_ok) ==
  IF ~status_ok THEN "wallet status error"
  ELSE IF locked THEN LockedWalletError
  ELSE IF ~parse_ok THEN "address parse error"
  ELSE "Ok"

\* let network_change_address = get_change_address_from_node()?;
GetChangeAddress ==
  /\ pc = "iter_change_address"
  /\ \E status_ok \in BOOLEAN, parse_ok \in BOOLEAN :
       LET res == get_change_address_from_node(status_ok, wallet_locked, parse_ok)
       IN  IF res = "Ok"
             THEN /\ change_address' = "address"
                  /\ pc' = "iter_pool_state"
                  /\ UNCHANGED iter_res
             ELSE /\ Returns(res)
                  /\ UNCHANGED change_address
  /\ UNCHANGED <<ledger, config, command_res, exit_status, submitted, height, pool_state,
                 cmd, dp_snapshot, build_res, exec_calls, error_logged>>

\* A plausible slip: a failed read is passed on as a live epoch.
pool_state_of_unchecked(read_ok, box, posted) ==
  LiveEpoch(box.epoch_start_height, posted)

\* match op.get_live_epoch_state() { Ok(s) => LiveEpoch(s), Err(_) => NeedsBootstrap }
pool_state_of(read_ok, box, posted) ==
  IF read_ok /\ box.exists
    THEN LiveEpoch(box.epoch_start_height, posted)
    ELSE NeedsBootstrap

GetLiveEpochState ==
  /\ pc = "iter_pool_state"
  /\ \E read_ok \in BOOLEAN :
       pool_state' = pool_state_of(read_ok, pool_box, local_posted)
  /\ pc' = "iter_process"
  /\ UNCHANGED <<ledger, config, command_res, exit_status, submitted, height,
                 change_address, cmd, dp_snapshot, build_res, iter_res,
                 exec_calls, error_logged>>

\* A plausible slip: the two u32 arguments are passed in the wrong order.
process_call_swapped(state, epoch_length_, height_) ==
  process(state, height_, epoch_length_)

\* process(pool_state, epoch_length, height)
process_call(state, epoch_length_, height_) ==
  process(state, epoch_length_, height_)

\* if let Some(cmd) = process(pool_state, epoch_length, height) { .. } Ok(())
Process ==
  /\ pc = "iter_process"
  /\ cmd' = process_call(pool_state, epoch_length, height)
  /\ IF cmd' = NoCommand
       THEN Returns("Ok")
       ELSE pc' = "iter_build" /\ UNCHANGED iter_res
  /\ UNCHANGED <<ledger, config, command_res, exit_status, submitted, height,
                 change_address, pool_state, dp_snapshot, build_res,
                 exec_calls, error_logged>>

\* let build_action_res = build_action(cmd, op, &wallet, height, address);
\* the builder reads the boxes it needs from the box repository.
BuildAction ==
  /\ pc = "iter_build"
  /\ \E context_ok \in {pool_box.exists, FALSE} :
     \E boxes \in (IF cmd = "Refresh" /\ context_ok
                     THEN DatapointSnapshots(chain_height) ELSE {NoSnapshot}),
        source_ok \in (IF cmd = "Refresh" \/ ~context_ok THEN {TRUE} ELSE BOOLEAN) :
       /\ dp_snapshot' = boxes
       /\ build_res' = build_action(cmd, boxes, pool_box.epoch_start_height,
                                    epoch_length, height, source_ok, context_ok)
  /\ pc' = "iter_classify"
  /\ UNCHANGED <<ledger, config, command_res, exit_status, submitted, height,
                 change_address, pool_state, cmd, iter_res, exec_calls,
                 error_logged>>

\* A plausible slip: the read-only test is inverted.
should_execute_inverted(read_only) == read_only

\* A plausible slip: the read-only flag is not consulted.
should_execute_always(read_only) == TRUE

\* if !read_only { execute_action(action)?; }
should_execute(read_only) == ~read_only

\* if let Some(action) = log_and_continue_if_non_fatal(.., build_action_res)? { .. }
LogAndContinue ==
  /\ pc = "iter_classify"
  /\ LET res == log_and_continue_if_non_fatal(build_res)
     IN  IF res = "Err" THEN Returns(build_res.tag)
         ELSE IF res = "None" THEN Returns("Ok")
         ELSE IF should_execute(command.read_only)
           THEN pc' = "iter_execute" /\ UNCHANGED iter_res
           ELSE Returns("Ok")
  /\ dp_snapshot' = NoSnapshot
  /\ UNCHANGED <<ledger, config, command_res, exit_status, submitted, height,
                 change_address, pool_state, cmd, build_res, exec_calls,
                 error_logged>>

\* The ledger accepts a transaction only if the pool box it was built
\* against is still unspent, and a refresh only once the epoch of that pool
\* box is over on the ledger.
LedgerAccepts(action) ==
  /\ pool_box.exists
  /\ pool_box.epoch_start_height = action.pool_box
  /\ action.kind = "Refresh" =>
       chain_height >= pool_box.epoch_start_height + epoch_length

\* A plausible slip: the result of execute_action is dropped instead of
\* being propagated with `?`.
ExecuteAction_ignoring_error ==
  /\ pc = "iter_execute"
  /\ exec_calls' = exec_calls + 1
  /\ \E node_ok \in BOOLEAN :
       IF node_ok /\ LedgerAccepts(build_res)
         THEN /\ submitted' = TRUE
              /\ IF build_res.kind = "Refresh"
                   THEN /\ pool_box' = PoolBox(build_res.new_epoch_start)
                        /\ local_posted' = FALSE
                   ELSE /\ local_posted' = TRUE
                        /\ UNCHANGED pool_box
         ELSE UNCHANGED <<pool_box, local_posted, submitted>>
  /\ Returns("Ok")
  /\ UNCHANGED <<chain_height, wallet_locked, config, command_res,
                 exit_status, height, change_address, pool_state, cmd,
                 dp_snapshot, build_res, error_logged>>

\* execute_action(action)?
ExecuteAction ==
  /\ pc = "iter_execute"
  /\ exec_calls' = exec_calls + 1
  /\ \E node_ok \in BOOLEAN :
       IF node_ok /\ LedgerAccepts(build_res)
         THEN /\ submitted' = TRUE
              /\ IF build_res.kind = "Refresh"
                   THEN /\ pool_box' = PoolBox(build_res.new_epoch_start)
                        /\ local_posted' = FALSE
                   ELSE /\ local_posted' = TRUE
                        /\ UNCHANGED pool_box
              /\ Returns("Ok")
         ELSE /\ Returns("execute_action error")
              /\ UNCHANGED <<pool_box, local_posted, submitted>>
  /\ UNCHANGED <<chain_height, wallet_locked, config, command_res,
                 exit_status, height, change_address, pool_state, cmd,
                 dp_snapshot, build_res, error_logged>>

\* A plausible slip: the error is propagated out of the loop.
loop_after_propagating(res) == IF IsErr(res) THEN "exit" ELSE "sleep"

\* loop { if let Err(e) = main_loop_iteration(..) { error!(..) } sleep }:
\* where the loop goes after an iteration that returned `res`.
loop_after(res) == "sleep"

\* if let Err(e) = main_loop_iteration(&op, read_only) { error!("error: {:?}", e); }
IterationReturned ==
  /\ pc = "iter_return"
  /\ error_logged' = IsErr(iter_res)
  /\ IF loop_after(iter_res) = "sleep"
       THEN pc' = "sleep" /\ UNCHANGED exit_status
       ELSE Exit("SOFTWARE")
  /\ UNCHANGED <<ledger, config, command_res, submitted, locals>>

\* A plausible slip: the locals are declared outside the loop, so an
\* iteration starts with what the previous one left in them.
Sleep_keeping_locals ==
  /\ pc = "sleep"
  /\ pc' = "iter_height"
  /\ error_logged' = FALSE
  /\ UNCHANGED <<ledger, config, command_res, exit_status, submitted, locals>>

\* thread::sleep(Duration::new(30, 0)); the next iteration starts afresh.
Sleep ==
  /\ pc = "sleep"
  /\ pc' = "iter_height"
  /\ error_logged' = FALSE
  /\ height' = 0
  /\ change_address' = "none"
  /\ pool_state' = NeedsBootstrap
  /\ cmd' = NoCommand
  /\ dp_snapshot' = NoSnapshot
  /\ build_res' = NoResult
  /\ iter_res' = "none"
  /\ exec_calls' = 0
  /\ UNCHANGED <<ledger, config, command_res, exit_status, submitted>>

MainLoopIteration ==
  \/ CurrentBlockHeight
  \/ GetChangeAddress
  \/ GetLiveEpochState
  \/ Process
  \/ BuildAction
  \/ LogAndContinue
  \/ ExecuteAction

HandleOracleCommand ==
  \/ Launch
  \/ RegisterAndSaveScans
  \/ OraclePoolNew
  \/ Run
  \/ TokenCommand
  \/ PrintRewardTokens
  \/ VoteUpdatePool
  \/ UpdatePool
  \/ PrepareUpdate
  \/ IterationReturned
  \/ Sleep

Program == HandleOracleCommand \/ MainLoopIteration

Next == Program \/ Environment

Spec == Init /\ [][Next]_vars

\* The run loop is one thread: whenever it can take a step it eventually
\* does (every call it makes returns).
FairSpec == Spec /\ WF_vars(Program)

\* ------------------------------------------------- process on all its inputs

\* The steps of an iteration in which the node answers: the height, the
\* change address and the pool box are read, the action is built from
\* datapoints that reach consensus, and the submission is accepted.
HeightReadSucceeds == CurrentBlockHeight /\ pc' = "iter_change_address"
ChangeAddressReadSucceeds == GetChangeAddress /\ pc' = "iter_pool_state"
PoolStateReadSucceeds == GetLiveEpochState /\ pool_state'.tag = "LiveEpoch"
SubmissionSucceeds == ExecuteAction /\ iter_res' = "Ok"

\* The datapoints that remain on the ledger reach consensus: every oracle's
\* box holds the same value, committed at the current height.
AgreedSnapshot == [pk \in Oracles |-> DatapointBox(100, chain_height)]

\* What build_action returns for `command_` on the agreed snapshot.
AgreedBuild(command_) ==
  IF command_ = "Refresh"
    THEN BuildResult("Ok", "Refresh", Oracles, pool_box.epoch_start_height,
                     new_epoch_start_height(pool_box.epoch_start_height, height))
    ELSE BuildResult("Ok", command_, NoKeys, pool_box.epoch_start_height, 0)

\* The step of BuildAction that reads the agreed snapshot, the datapoint
\* source answering.
BuildSucceeds ==
  /\ pc = "iter_build"
  /\ pool_box.exists
  /\ MinDataPoints <= Cardinality(Oracles)
  /\ pc' = "iter_classify"
  /\ build_res' = AgreedBuild(cmd)
  /\ dp_snapshot' = (IF cmd = "Refresh" THEN AgreedSnapshot ELSE NoSnapshot)
  /\ UNCHANGED <<ledger, config, command_res, exit_status, submitted, height,
                 change_address, pool_state, cmd, iter_res, exec_calls,
                 error_logged>>

\* The steps of the loop other than the build, whose progress is that of
\* BuildSucceeds.
LoopStep ==
  \/ CurrentBlockHeight
  \/ GetChangeAddress
  \/ GetLiveEpochState
  \/ Process
  \/ LogAndContinue
  \/ ExecuteAction
  \/ IterationReturned
  \/ Sleep

\* The loop thread is scheduled fairly, and a node call that can succeed
\* again and again does eventually succeed.
ProgressSpec ==
  /\ Spec
  /\ WF_vars(LoopStep)
  /\ SF_vars(HeightReadSucceeds)
  /\ SF_vars(ChangeAddressReadSucceeds)
  /\ SF_vars(PoolStateReadSucceeds)
  /\ SF_vars(BuildSucceeds)
  /\ SF_vars(SubmissionSucceeds)

\* process applied to every pool state, epoch length and height.
InitProcess ==
  /\ pool_state \in PoolStates
  /\ epoch_length \in 0..MaxEpochLength
  /\ height \in Heights
  /\ pc = "iter_process"
  /\ chain_height = height
  /\ pool_box = NoPoolBox
  /\ local_posted = FALSE
  /\ wallet_locked = FALSE
  /\ command = Cmd("Run", FALSE, "none", "none", "none", "none")
  /\ exit_status = "none"
  /\ submitted = FALSE
  /\ error_logged = FALSE
  /\ change_address = "address"
  /\ cmd = NoCommand
  /\ dp_snapshot = NoSnapshot
  /\ build_res = NoResult
  /\ iter_res = "none"
  /\ exec_calls = 0
  /\ command_res = "none"

ProcessSpec == InitProcess /\ [][Process]_vars

\* ------------------------------------------------------------------ claims

\* process has been called in this iteration and its result is in cmd.
Decided == pc \in {"iter_build", "iter_classify", "iter_execute", "iter_return", "sleep"}

DecidedLive == Decided /\ pool_state.tag = "LiveEpoch"

EpochEnd == pool_state.epoch_start_height + epoch_length

C2_ExpiredEpochRefresh ==
  (DecidedLive /\ height >= EpochEnd) => cmd = "Refresh"

C2_Witness ==
  /\ DecidedLive
  /\ height >= EpochEnd
  /\ epoch_length > 0
  /\ pool_state.local_posted
  /\ cmd = "Refresh"

\* C7: for NeedsBootstrap, process returns none for every epoch length and
\* height, and the iteration ends there.
C7_NeedsBootstrapIdle ==
  (pc # "iter_process" /\ pool_state.tag = "NeedsBootstrap")
    => (cmd = NoCommand /\ pc = "iter_return" /\ iter_res = "Ok")

C7_Witness ==
  /\ pc = "iter_return"
  /\ pool_state.tag = "NeedsBootstrap"
  /\ height > 0
  /\ epoch_length > 0
  /\ cmd = NoCommand

\* The datapoints of the snapshot the refresh was built from that were
\* committed in the epoch window, are fresh, and lie within the maximum
\* deviation of the average of the fresh ones.
FreshInSnapshot ==
  {pk \in Oracles :
     /\ dp_snapshot[pk].present
     /\ dp_snapshot[pk].height >= build_res.pool_box
     /\ dp_snapshot[pk].height + epoch_length >= height}

QualifiedInSnapshot ==
  {pk \in FreshInSnapshot :
     LET avg == SumValues(dp_snapshot, FreshInSnapshot) \div Cardinality(FreshInSnapshot)
         diff == dp_snapshot[pk].value - avg
     IN  (IF diff < 0 THEN -diff ELSE diff) * 100 <= MaxDeviationPercent * avg}

RefreshBuilt == pc = "iter_classify" /\ cmd = "Refresh" /\ build_res.tag # "Other"

\* C3: when the refresh finds fewer than `expected` datapoints within the
\* maximum deviation, build_action fails with FailedToReachConsensus whose
\* found_public_keys are exactly the qualifying keys and whose found_num is
\* their count; it never returns a refresh action then.
C3_ConsensusFailureCarriesKeys ==
  (RefreshBuilt /\ Cardinality(QualifiedInSnapshot) < MinDataPoints)
    => /\ build_res.tag = "FailedToReachConsensus"
       /\ build_res.expected = MinDataPoints
       /\ build_res.found_public_keys = QualifiedInSnapshot
       /\ build_res.found_num = Cardinality(QualifiedInSnapshot)

C3_Witness ==
  /\ RefreshBuilt
  /\ FreshInSnapshot = Oracles
  /\ Cardinality(QualifiedInSnapshot) = 2
  /\ build_res.tag = "FailedToReachConsensus"
  /\ build_res.expected = 3
  /\ build_res.found_num = 2

NonFatalBuildFailure == build_res.tag \in {"FailedToReachConsensus", "DataPointSource"}

\* C4: a build that fails with FailedToReachConsensus or DataPointSource is
\* non-fatal: the iteration returns Ok without calling execute_action, and
\* the step that classifies it submits nothing and spends no box.
C4_NonFatalBuildFailure ==
  /\ []((pc \in {"iter_return", "sleep"} /\ NonFatalBuildFailure)
          => (iter_res = "Ok" /\ exec_calls = 0))
  /\ [][(pc = "iter_classify" /\ pc' # pc /\ NonFatalBuildFailure)
          => (pc' = "iter_return" /\ UNCHANGED <<ledger, submitted>>)]_vars

C4_Witness ==
  /\ pc = "sleep"
  /\ build_res.tag = "DataPointSource"
  /\ iter_res = "Ok"
  /\ exec_calls = 0
  /\ ~command.read_only

InLoop == pc \in {"iter_height", "iter_change_address", "iter_pool_state",
                  "iter_process", "iter_build", "iter_classify",
                  "iter_execute", "iter_return", "sleep"}

\* C5: once the run loop has started it never exits: an iteration's error
\* is at most logged, and after the sleep another iteration begins.
C5_LoopNeverExits ==
  /\ [][InLoop => InLoop']_vars
  /\ [][(pc = "iter_return" /\ pc' # pc)
          => (pc' = "sleep" /\ error_logged' = IsErr(iter_res))]_vars
  /\ [](InLoop => <>(pc = "iter_height"))

C5_Witness ==
  /\ pc = "sleep"
  /\ iter_res = "execute_action error"
  /\ error_logged

\* C6: in read-only run mode execute_action is never called and nothing is
\* submitted; a built action is discarded.
C6_ReadOnlyNeverExecutes ==
  command.read_only => (pc # "iter_execute" /\ exec_calls = 0 /\ ~submitted)

C6_Witness ==
  /\ command.read_only
  /\ pc = "iter_return"
  /\ build_res.tag = "Ok"
  /\ build_res.kind = "Refresh"
  /\ iter_res = "Ok"

NonZeroExit == pc = "exited" /\ exit_status \in {"SOFTWARE", "panic"}

\* C8 (as stated): whenever the wallet is found locked, at startup or during
\* an iteration, the process exits with a non-zero status instead of logging
\* the failure and continuing.
C8_LockedWalletAlwaysFatal ==
  (iter_res = LockedWalletError) => NonZeroExit

AssertsWallet == pc = "launch" \/ (pc = "dispatch" /\ command.name = "Run")

\* C8 (amended): a wallet found locked by assert_wallet_unlocked, at launch
\* or on entering the run loop, ends the process with a non-zero status; a
\* wallet found locked during an iteration only fails that iteration, which
\* is logged, and the loop goes on to sleep.
C8_LockedWalletFatalAtStartupOnly ==
  /\ [][(AssertsWallet /\ wallet_locked /\ pc' # pc)
          => (pc' = "exited" /\ exit_status' = "SOFTWARE")]_vars
  /\ []((iter_res = LockedWalletError)
          => (pc \in {"iter_return", "sleep"} /\ exit_status = "none"))
  /\ []((pc = "sleep" /\ iter_res = LockedWalletError) => error_logged)

C8_Witness ==
  /\ pc = "sleep"
  /\ iter_res = LockedWalletError
  /\ wallet_locked
  /\ error_logged
  /\ exit_status = "none"

Malformed(c) ==
  \/ c.new_pool_box_hash = "bad"
  \/ c.reward_token_id = "bad"
  \/ c.reward_token_amount = "zero"
  \/ c.update_file = "bad"

\* C10: a malformed governance input to VoteUpdatePool, UpdatePool or
\* PrepareUpdate fails before anything is built, never reaches the ledger,
\* and ends the process with a non-zero exit status.
C10_MalformedGovernanceInputFails ==
  (pc = "exited" /\ command.name \in GovernanceCommands /\ Malformed(command))
    => (NonZeroExit /\ ~submitted)

OneShotCommands == {"ExtractRewardTokens", "PrintRewardTokens",
                    "TransferOracleToken", "VoteUpdatePool", "UpdatePool",
                    "PrepareUpdate"}

OneShot == command.name \in OneShotCommands

\* The operation of a one-shot command returned an error or panicked.
OneShotFailed == command_res \notin {"none", "Submitted", "Printed"}

\* C11: a one-shot command never enters the polling loop and never calls
\* process, build_action or execute_action; its single operation runs at
\* most once, as the one step from the dispatch to the end of the process;
\* and when that operation fails the process has ended with a non-zero exit
\* status, without a retry.
C11_OneShotBypassesLoop ==
  /\ [](OneShot => (~InLoop /\ cmd = NoCommand /\ build_res = NoResult
                      /\ exec_calls = 0 /\ iter_res = "none"))
  /\ [][(OneShot /\ pc = "dispatch" /\ pc' # pc)
          => (pc' = "exited" /\ command_res' # "none")]_vars
  /\ [][(OneShot /\ command_res # "none") => UNCHANGED command_res]_vars
  /\ []((OneShot /\ OneShotFailed) => NonZeroExit)

C11_Witness ==
  /\ command.name = "TransferOracleToken"
  /\ command_res = "Err"
  /\ pc = "exited"
  /\ exit_status = "SOFTWARE"
  /\ error_logged
  /\ ~submitted

\* The order of the steps of main_loop_iteration and of the loop around it.
IterationOrder ==
  {<<"iter_height", "iter_change_address">>, <<"iter_height", "iter_return">>,
   <<"iter_change_address", "iter_pool_state">>,
   <<"iter_change_address", "iter_return">>,
   <<"iter_pool_state", "iter_process">>,
   <<"iter_process", "iter_build">>, <<"iter_process", "iter_return">>,
   <<"iter_build", "iter_classify">>,
   <<"iter_classify", "iter_execute">>, <<"iter_classify", "iter_return">>,
   <<"iter_execute", "iter_return">>,
   <<"iter_return", "sleep">>, <<"sleep", "iter_height">>}

\* C12: within one iteration the steps run in their fixed order;
\* execute_action is called at most once, and only after the change address
\* was read, the pool state was read as a live epoch, process returned a
\* command and build_action built that command; building and classifying
\* submit nothing: only execute_action changes what the process has put on
\* the ledger.
C12_ExecuteOnlyAfterBuild ==
  /\ [][(InLoop /\ pc' # pc) => <<pc, pc'>> \in IterationOrder]_vars
  /\ [](exec_calls <= 1)
  /\ []((pc = "iter_execute" \/ exec_calls = 1)
          => /\ change_address = "address"
             /\ pool_state.tag = "LiveEpoch"
             /\ cmd \in PoolCommands
             /\ build_res.tag = "Ok"
             /\ build_res.kind = cmd)
  /\ [][(pc \in {"iter_build", "iter_classify"} /\ pc' # pc)
          => UNCHANGED <<ledger, submitted, exec_calls>>]_vars
  /\ [][(InLoop /\ submitted' # submitted) => pc = "iter_execute"]_vars

C12_Witness ==
  /\ pc = "iter_return"
  /\ exec_calls = 1
  /\ iter_res = "Ok"
  /\ submitted
  /\ build_res.kind = "Refresh"

\* C13: whatever the pool state, the epoch length and the height, process
\* returns none, PublishDatapoint or Refresh; the run loop therefore never
\* builds, classifies or executes a governance action, and a governance
\* transaction is only ever submitted by a one-shot command.
C13_LoopNeverGoverns ==
  /\ cmd \in {NoCommand} \cup PoolCommands
  /\ build_res.kind \in {NoCommand} \cup PoolCommands
  /\ command.name = "Run" => command_res = "none"
  /\ (pc = "iter_execute") => build_res.kind \in PoolCommands

C13_Witness ==
  /\ command.name = "Run"
  /\ pc = "iter_return"
  /\ exec_calls = 1
  /\ submitted
  /\ cmd = "PublishDatapoint"
  /\ build_res.kind = "PublishDatapoint"
  /\ local_posted

\* The pool state of this iteration has been read.
PoolStateRead ==
  /\ pc \in {"iter_process", "iter_build", "iter_classify", "iter_execute",
             "iter_return", "sleep"}
  /\ change_address = "address"

\* C14: while no valid pool box can be read, every read of the live epoch
\* state yields NeedsBootstrap; an iteration whose pool state is
\* NeedsBootstrap builds no action, executes nothing and returns Ok, so the
\* loop logs no error for it.
C14_FailedReadIsNeedsBootstrap ==
  /\ [][(pc = "iter_pool_state" /\ pc' # pc /\ ~pool_box.exists)
          => pool_state' = NeedsBootstrap]_vars
  /\ []((PoolStateRead /\ pool_state = NeedsBootstrap)
          => /\ pc \in {"iter_process", "iter_return", "sleep"}
             /\ cmd = NoCommand
             /\ build_res = NoResult
             /\ exec_calls = 0
             /\ (pc # "iter_process" => iter_res = "Ok")
             /\ (pc = "sleep" => ~error_logged))

C14_Witness ==
  /\ pc = "sleep"
  /\ change_address = "address"
  /\ pool_state = NeedsBootstrap
  /\ ~pool_box.exists
  /\ iter_res = "Ok"
  /\ ~error_logged
  /\ cmd = NoCommand

\* C15: a failed iteration is never retried on the spot: from its return the
\* loop only goes to the sleep, and from the sleep only to the first step of
\* a new iteration, which starts with fresh locals; an action is built or
\* executed only in an iteration that has not failed, and the command it is
\* built for is the decision on the height and pool state that iteration
\* read.
C15_NoRetryNoCarriedState ==
  /\ [][(pc = "iter_return" /\ pc' # pc) => pc' = "sleep"]_vars
  /\ [][(pc = "sleep" /\ pc' # pc) => pc' = "iter_height"]_vars
  /\ [](pc = "iter_height" => (FreshLocals /\ ~error_logged))
  /\ [](pc \in {"iter_build", "iter_classify", "iter_execute"}
          => (iter_res = "none" /\ ~error_logged))
  /\ [](Decided => cmd = process(pool_state, epoch_length, height))

C15_Witness ==
  /\ pc = "sleep"
  /\ IsErr(iter_res)
  /\ error_logged
  /\ build_res.tag = "Other"
  /\ build_res.kind = "Refresh"
  /\ exec_calls = 0

\* The pool box the built action spends is no longer the unspent pool box.
StaleAction ==
  ~pool_box.exists \/ pool_box.epoch_start_height # build_res.pool_box

\* C16: when the pool box an action was built against has been spent by
\* another party before the submission, execute_action changes nothing on
\* the ledger and returns an error; the loop logs it and goes on to the
\* sleep without exiting, and the stale action is dropped: the next
\* iteration starts without it and builds from what it reads itself.
C16_StaleActionRejected ==
  /\ [][(pc = "iter_execute" /\ pc' # pc /\ StaleAction)
          => /\ iter_res' = "execute_action error"
             /\ pc' = "iter_return"
             /\ UNCHANGED <<ledger, submitted>>]_vars
  /\ []((iter_res = "execute_action error")
          => /\ pc \in {"iter_return", "sleep"}
             /\ exit_status = "none"
             /\ exec_calls = 1
             /\ (pc = "sleep" => error_logged))
  /\ [][(pc = "sleep" /\ pc' # pc)
          => (pc' = "iter_height" /\ build_res' = NoResult
                /\ exec_calls' = 0)]_vars

C16_Witness ==
  /\ pc = "sleep"
  /\ iter_res = "execute_action error"
  /\ build_res.kind = "Refresh"
  /\ build_res.tag = "Ok"
  /\ pool_box.exists
  /\ pool_box.epoch_start_height > build_res.pool_box
  /\ error_logged
  /\ ~submitted

RefreshDue ==
  /\ command.name = "Run"
  /\ ~command.read_only
  /\ InLoop
  /\ ~wallet_locked
  /\ pool_box.exists
  /\ chain_height >= pool_box.epoch_start_height + epoch_length
  /\ MinDataPoints <= Cardinality(Oracles)

\* C20: the loop cannot stay forever in a state where the epoch of the pool
\* box is over and every precondition of the refresh holds: when the node
\* reads, the build and the submission eventually succeed, a refresh is
\* executed and the pool box of that epoch is replaced.
C20_RefreshEventuallyExecuted ==
  []<>(~RefreshDue)

C20_Witness ==
  /\ command.name = "Run"
  /\ ~command.read_only
  /\ pc = "iter_return"
  /\ iter_res = "Ok"
  /\ exec_calls = 1
  /\ build_res.kind = "Refresh"
  /\ pool_state.epoch_start_height = build_res.pool_box
  /\ height >= build_res.pool_box + epoch_length
  /\ pool_box = PoolBox(build_res.new_epoch_start)
  /\ build_res.new_epoch_start > build_res.pool_box

====
